---------------------------- MODULE Spec2Model ----------------------------
(***************************************************************************)
(* Users and orders on an in-memory database: InMemoryDatabase,            *)
(* UserService and OrderService.                                           *)
(*                                                                         *)
(* std::string is a sequence of characters, std::optional<T> a record with *)
(* has_value, std::vector<T> built from an unordered_map a set (its order  *)
(* is unspecified), double an integer (the amounts used are small whole    *)
(* numbers, on which double arithmetic is exact).                          *)
(***************************************************************************)
EXTENDS Integers, Sequences, FiniteSets, TLC

\* Most records of each kind a store holds before the next clear().
MaxUsers == 2
MaxOrders == 2

\* The threads that call saveUser and saveOrder at the same time.
MaxThreads == 2
Threads == 1 .. MaxThreads

\* The arguments the operations are called with: an empty and a non-empty
\* name, an empty e-mail, one without and one with '@', an empty and a
\* non-empty product name, a negative, a zero and a positive amount, and the
\* ids a store can assign (an id is unknown until it is assigned, and again
\* once its record is removed or the store cleared).
Names == {<<>>, <<"J">>}
Emails == {<<>>, <<"x">>, <<"x", "@", "y">>}
ProductNames == {<<>>, <<"P">>}
Amounts == {-1, 0, 2}
UserIdArgs == 1 .. MaxUsers
OrderIdArgs == 1 .. MaxOrders

\* The ids the properties quantify over: the above, 0, the sentinel -1 and
\* an id no store assigns.
AnyUserId == -1 .. (MaxUsers + 1)
AnyOrderId == -1 .. (MaxOrders + 1)

OrderStatus == {"PENDING", "CONFIRMED", "SHIPPED", "DELIVERED", "CANCELLED"}

VARIABLES
    users,          \* InMemoryDatabase::users_
    orders,         \* InMemoryDatabase::orders_
    next_user_id,   \* InMemoryDatabase::next_user_id_
    next_order_id,  \* InMemoryDatabase::next_order_id_
    op,             \* the operation called last
    args,           \* its arguments
    ret,            \* its return value
    mutex,          \* InMemoryDatabase::mutex_: 0, or the thread that holds it
    thread,         \* of each thread, the statement it is at and its locals
    returned        \* of saveUser and saveOrder, the calls that have returned
                    \* (in StoreSpec: since the last clear())

vars == <<users, orders, next_user_id, next_order_id, op, args, ret,
          mutex, thread, returned>>

-----------------------------------------------------------------------------
(* std::optional *)

NullOpt == [has_value |-> FALSE]
Some(v) == [has_value |-> TRUE, value |-> v]

(* std::string *)

empty(s) == Len(s) = 0
contains(s, c) == \E i \in 1 .. Len(s) : s[i] = c

(* std::unordered_map: m[k] = v, inserting or overwriting *)
Put(m, k, v) == [x \in (DOMAIN m) \cup {k} |-> IF x = k THEN v ELSE m[x]]
Erase(m, k) == [x \in (DOMAIN m) \ {k} |-> m[x]]
EmptyMap == [x \in {} |-> 0]

-----------------------------------------------------------------------------
(* InMemoryDatabase.  `db` is the object: its two maps and its two         *)
(* counters.  A mutating method is the pair of its return value and the    *)
(* object it leaves behind; every method runs under the mutex, as one step.*)

Result(r, db) == [ret |-> r, db |-> db]

\* saveUser without `new_user.id = next_user_id_++`'s assignment to the record.
saveUser_KeepId(db, user) ==
    Result(db.next_user_id,
           [db EXCEPT !.users = Put(@, db.next_user_id, user),
                      !.next_user_id = @ + 1])

\* saveUser taking the id from the size of users_ instead of the counter.
saveUser_SizePlusOne(db, user) ==
    LET new_user == [user EXCEPT !.id = Cardinality(DOMAIN db.users) + 1]
    IN  Result(new_user.id,
               [db EXCEPT !.users = Put(@, new_user.id, new_user),
                          !.next_user_id = @ + 1])

saveUser(db, user) ==
    LET new_user == [user EXCEPT !.id = db.next_user_id]
    IN  Result(new_user.id,
               [db EXCEPT !.users = Put(@, new_user.id, new_user),
                          !.next_user_id = @ + 1])

\* findUserById reading users_[id], which holds a default User for a missing id.
findUserById_Subscript(db, id) ==
    IF id \in DOMAIN db.users
    THEN Some(db.users[id])
    ELSE Some([id |-> 0, name |-> <<>>, email |-> <<>>, is_active |-> FALSE])

findUserById(db, id) ==
    IF id \in DOMAIN db.users THEN Some(db.users[id]) ELSE NullOpt

findAllUsers(db) == {db.users[id] : id \in DOMAIN db.users}

\* updateUser reporting success without the assignment to users_.
updateUser_NoWrite(db, user) == Result(user.id \in DOMAIN db.users, db)

\* updateUser as users_[user.id] = user, which inserts a missing record.
updateUser_Upsert(db, user) ==
    Result(user.id \in DOMAIN db.users, [db EXCEPT !.users = Put(@, user.id, user)])

updateUser(db, user) ==
    IF user.id \in DOMAIN db.users
    THEN Result(TRUE, [db EXCEPT !.users = Put(@, user.id, user)])
    ELSE Result(FALSE, db)

\* deleteUser erasing the orders of the user with the user.
deleteUser_Cascade(db, id) ==
    Result(id \in DOMAIN db.users,
           [db EXCEPT !.users = Erase(@, id),
                      !.orders = [o \in {i \in DOMAIN @ : @[i].user_id # id} |-> @[o]]])

deleteUser(db, id) ==
    Result(id \in DOMAIN db.users, [db EXCEPT !.users = Erase(@, id)])

\* saveOrder without `new_order.id = next_order_id_++`'s assignment to the record.
saveOrder_KeepId(db, order) ==
    Result(db.next_order_id,
           [db EXCEPT !.orders = Put(@, db.next_order_id, order),
                      !.next_order_id = @ + 1])

saveOrder(db, order) ==
    LET new_order == [order EXCEPT !.id = db.next_order_id]
    IN  Result(new_order.id,
               [db EXCEPT !.orders = Put(@, new_order.id, new_order),
                          !.next_order_id = @ + 1])

findOrderById(db, id) ==
    IF id \in DOMAIN db.orders THEN Some(db.orders[id]) ELSE NullOpt

\* findOrdersByUserId without its owner filter.
findOrdersByUserId_All(db, user_id) == {db.orders[id] : id \in DOMAIN db.orders}

findOrdersByUserId(db, user_id) ==
    {db.orders[id] : id \in {i \in DOMAIN db.orders : db.orders[i].user_id = user_id}}

findAllOrders(db) == {db.orders[id] : id \in DOMAIN db.orders}

\* updateOrder erasing the order instead of storing it as cancelled.
updateOrder_EraseCancelled(db, order) ==
    IF order.id \in DOMAIN db.orders
    THEN Result(TRUE, [db EXCEPT !.orders = IF order.status = "CANCELLED"
                                            THEN Erase(@, order.id)
                                            ELSE Put(@, order.id, order)])
    ELSE Result(FALSE, db)

updateOrder(db, order) ==
    IF order.id \in DOMAIN db.orders
    THEN Result(TRUE, [db EXCEPT !.orders = Put(@, order.id, order)])
    ELSE Result(FALSE, db)

deleteOrder(db, id) ==
    Result(id \in DOMAIN db.orders, [db EXCEPT !.orders = Erase(@, id)])

\* clear without the reset of the two counters.
clear_KeepCounters(db) ==
    Result(TRUE, [db EXCEPT !.users = EmptyMap, !.orders = EmptyMap])

clear(db) ==
    Result(TRUE, [users |-> EmptyMap, orders |-> EmptyMap,
                  next_user_id |-> 1, next_order_id |-> 1])

-----------------------------------------------------------------------------
(* UserService *)

\* isValidName without its check.
isValidName_Any(name) == TRUE

isValidName(name) == ~empty(name)

isValidEmail(email) == ~empty(email)

\* createUser taking the id before it validates, so a refused call uses one up.
createUser_ConsumeId(db, name, email) ==
    IF ~isValidName(name) \/ ~isValidEmail(email)
    THEN Result(-1, [db EXCEPT !.next_user_id = @ + 1])
    ELSE saveUser(db, [id |-> 0, name |-> name, email |-> email, is_active |-> TRUE])

createUser(db, name, email) ==
    IF ~isValidName(name) \/ ~isValidEmail(email)
    THEN Result(-1, db)
    ELSE saveUser(db, [id |-> 0, name |-> name, email |-> email, is_active |-> TRUE])

getUser(db, id) == findUserById(db, id)

\* getActiveUsers without the is_active filter.
getActiveUsers_All(db) == findAllUsers(db)

getActiveUsers(db) == {u \in findAllUsers(db) : u.is_active}

\* deactivateUser flipping is_active instead of clearing it.
deactivateUser_Toggle(db, id) ==
    LET user == findUserById(db, id)
    IN  IF ~user.has_value
        THEN Result(FALSE, db)
        ELSE updateUser(db, [user.value EXCEPT !.is_active = ~@])

\* deactivateUser that also removes the orders of the user.
deactivateUser_DropOrders(db, id) ==
    LET user == findUserById(db, id)
        kept == {i \in DOMAIN db.orders : db.orders[i].user_id # id}
    IN  IF ~user.has_value
        THEN Result(FALSE, db)
        ELSE updateUser([db EXCEPT !.orders = [i \in kept |-> db.orders[i]]],
                        [user.value EXCEPT !.is_active = FALSE])

deactivateUser(db, id) ==
    LET user == findUserById(db, id)
    IN  IF ~user.has_value
        THEN Result(FALSE, db)
        ELSE updateUser(db, [user.value EXCEPT !.is_active = FALSE])

\* userExists answered from the counter: true of every id assigned so far.
userExists_Assigned(db, id) == id >= 1 /\ id < db.next_user_id

userExists(db, id) == findUserById(db, id).has_value

-----------------------------------------------------------------------------
(* OrderService *)

\* isValidProductName accepting the empty name.
isValidProductName_Any(name) == TRUE

isValidProductName(name) == ~empty(name)

\* isValidAmount with >= for >.
isValidAmount_NonNegative(amount) == amount >= 0

isValidAmount(amount) == amount > 0

\* canCancel letting a shipped order through.
canCancel_Shipped(status) ==
    status = "PENDING" \/ status = "CONFIRMED" \/ status = "SHIPPED"

\* canCancel letting a cancelled order through.
canCancel_Cancelled(status) ==
    status = "PENDING" \/ status = "CONFIRMED" \/ status = "CANCELLED"

canCancel(status) == status = "PENDING" \/ status = "CONFIRMED"

createOrder(db, user_id, product_name, amount) ==
    LET user == getUser(db, user_id)
    IN  IF ~user.has_value
        THEN Result(-1, db)
        ELSE IF ~user.value.is_active
        THEN Result(-1, db)
        ELSE IF ~isValidProductName(product_name) \/ ~isValidAmount(amount)
        THEN Result(-1, db)
        ELSE saveOrder(db, [id |-> 0, user_id |-> user_id,
                            product_name |-> product_name, amount |-> amount,
                            status |-> "PENDING"])

getOrder(db, id) == findOrderById(db, id)

getUserOrders(db, user_id) == findOrdersByUserId(db, user_id)

\* updateOrderStatus refusing to leave a status cancelOrder refuses to leave.
updateOrderStatus_Guarded(db, id, status) ==
    LET order == findOrderById(db, id)
    IN  IF ~order.has_value
        THEN Result(FALSE, db)
        ELSE IF ~canCancel(order.value.status)
        THEN Result(FALSE, db)
        ELSE updateOrder(db, [order.value EXCEPT !.status = status])

updateOrderStatus(db, id, status) ==
    LET order == findOrderById(db, id)
    IN  IF ~order.has_value
        THEN Result(FALSE, db)
        ELSE updateOrder(db, [order.value EXCEPT !.status = status])

cancelOrder(db, id) ==
    LET order == findOrderById(db, id)
    IN  IF ~order.has_value
        THEN Result(FALSE, db)
        ELSE IF ~canCancel(order.value.status)
        THEN Result(FALSE, db)
        ELSE updateOrder(db, [order.value EXCEPT !.status = "CANCELLED"])

\* The lambda without its status check.
addOrder_All(sum, order) == sum + order.amount

\* The lambda std::accumulate folds with.
addOrder(sum, order) ==
    IF order.status # "CANCELLED" THEN sum + order.amount ELSE sum

\* std::accumulate(first, last, init, addOrder) over the elements of a vector.
RECURSIVE accumulate(_, _)
accumulate(os, init) ==
    IF os = {} THEN init
    ELSE LET o == CHOOSE x \in os : TRUE
         IN  accumulate(os \ {o}, addOrder(init, o))

\* getTotalAmount over findAllOrders instead of findOrdersByUserId.
getTotalAmount_AllOrders(db, user_id) == accumulate(findAllOrders(db), 0)

getTotalAmount(db, user_id) == accumulate(findOrdersByUserId(db, user_id), 0)

-----------------------------------------------------------------------------
(* The program: a fresh database, and one call at a time. *)

\* The database object as the state holds it.
Database ==
    [users |-> users, orders |-> orders,
     next_user_id |-> next_user_id, next_order_id |-> next_order_id]

\* A thread that is in no call.
Idle == [pc |-> "idle", method |-> "none", arg |-> <<>>, new |-> <<>>, tmp |-> 0]

Init ==
    /\ users = EmptyMap
    /\ orders = EmptyMap
    /\ next_user_id = 1
    /\ next_order_id = 1
    /\ op = "init"
    /\ args = <<>>
    /\ ret = TRUE
    /\ mutex = 0
    /\ thread = [t \in Threads |-> Idle]
    /\ returned = [saveUser |-> <<>>, saveOrder |-> <<>>]

\* The call `o` with arguments `a` returns r.ret and leaves the database
\* r.db.  The ids stay within MaxUsers and MaxOrders.  The call is the only
\* one running: it finds the mutex free and leaves it free.
Call(o, a, r) ==
    /\ mutex = 0
    /\ UNCHANGED <<mutex, thread, returned>>
    /\ r.db.next_user_id <= MaxUsers + 1
    /\ r.db.next_order_id <= MaxOrders + 1
    /\ users' = r.db.users
    /\ orders' = r.db.orders
    /\ next_user_id' = r.db.next_user_id
    /\ next_order_id' = r.db.next_order_id
    /\ op' = o
    /\ args' = a
    /\ ret' = r.ret

CreateUser ==
    \E name \in Names, email \in Emails :
        Call("createUser", [name |-> name, email |-> email], createUser(Database, name, email))

\* getUser reading users_[id], which inserts a default User for a missing id.
GetUser_Inserting ==
    \E id \in UserIdArgs :
        Call("getUser", [id |-> id],
             Result(findUserById_Subscript(Database, id),
                    IF id \in DOMAIN users
                    THEN Database
                    ELSE [Database EXCEPT !.users =
                             Put(@, id, findUserById_Subscript(Database, id).value)]))

GetUser ==
    \E id \in UserIdArgs : Call("getUser", [id |-> id], Result(getUser(Database, id), Database))

GetActiveUsers == Call("getActiveUsers", <<>>, Result(getActiveUsers(Database), Database))

DeactivateUser ==
    \E id \in UserIdArgs : Call("deactivateUser", [id |-> id], deactivateUser(Database, id))

UserExists ==
    \E id \in UserIdArgs : Call("userExists", [id |-> id], Result(userExists(Database, id), Database))

CreateOrder ==
    \E user_id \in UserIdArgs, product_name \in ProductNames, amount \in Amounts :
        Call("createOrder",
             [user_id |-> user_id, product_name |-> product_name, amount |-> amount],
             createOrder(Database, user_id, product_name, amount))

GetOrder ==
    \E id \in OrderIdArgs : Call("getOrder", [id |-> id], Result(getOrder(Database, id), Database))

GetUserOrders ==
    \E user_id \in UserIdArgs :
        Call("getUserOrders", [user_id |-> user_id], Result(getUserOrders(Database, user_id), Database))

UpdateOrderStatus ==
    \E id \in OrderIdArgs, status \in OrderStatus :
        Call("updateOrderStatus", [id |-> id, status |-> status],
             updateOrderStatus(Database, id, status))

CancelOrder ==
    \E id \in OrderIdArgs : Call("cancelOrder", [id |-> id], cancelOrder(Database, id))

GetTotalAmount ==
    \E user_id \in UserIdArgs :
        Call("getTotalAmount", [user_id |-> user_id], Result(getTotalAmount(Database, user_id), Database))

DeleteUser ==
    \E id \in UserIdArgs : Call("deleteUser", [id |-> id], deleteUser(Database, id))

DeleteOrder ==
    \E id \in OrderIdArgs : Call("deleteOrder", [id |-> id], deleteOrder(Database, id))

Clear == Call("clear", <<>>, clear(Database))

Next ==
    \/ CreateUser
    \/ GetUser
    \/ GetActiveUsers
    \/ DeactivateUser
    \/ UserExists
    \/ CreateOrder
    \/ GetOrder
    \/ GetUserOrders
    \/ UpdateOrderStatus
    \/ CancelOrder
    \/ GetTotalAmount
    \/ DeleteUser
    \/ DeleteOrder
    \/ Clear

Spec == Init /\ [][Next]_vars

-----------------------------------------------------------------------------
(* saveUser and saveOrder called from several threads at once, statement   *)
(* by statement.  `next_user_id_++` on a plain int is a read and a write.  *)

\* The records the threads save: what createUser and createOrder pass, and a
\* user with an empty name, which saveUser does not refuse.
SavedUsers ==
    {[id |-> 0, name |-> name, email |-> <<"x">>, is_active |-> TRUE] : name \in Names}
SavedOrders ==
    {[id |-> 0, user_id |-> 1, product_name |-> <<"P">>, amount |-> 2, status |-> "PENDING"]}

\* The calls of `method` begun: returned or in progress.
Begun(method) ==
    Len(returned[method]) + Cardinality({t \in Threads : thread[t].method = method})

\* Thread t calls saveUser(user) or saveOrder(order).
Begin(t) ==
    /\ thread[t].pc = "idle"
    /\ \/ /\ Begun("saveUser") < MaxUsers
          /\ \E user \in SavedUsers :
                thread' = [thread EXCEPT ![t] = [Idle EXCEPT !.pc = "lock",
                                                            !.method = "saveUser",
                                                            !.arg = user]]
       \/ /\ Begun("saveOrder") < MaxOrders
          /\ \E order \in SavedOrders :
                thread' = [thread EXCEPT ![t] = [Idle EXCEPT !.pc = "lock",
                                                            !.method = "saveOrder",
                                                            !.arg = order]]
    /\ UNCHANGED <<users, orders, next_user_id, next_order_id, op, args, ret,
                   mutex, returned>>

\* Where a method goes on once it holds the mutex: saveUser and saveOrder to
\* their first statement, the methods that run as one step to their body.
FirstStatement(method) ==
    IF method \in {"saveUser", "saveOrder"} THEN "copy" ELSE "body"

\* std::lock_guard's constructor without mutex_.lock().
Lock_NoMutex(t) ==
    /\ thread[t].pc = "lock"
    /\ thread' = [thread EXCEPT ![t].pc = FirstStatement(thread[t].method)]
    /\ UNCHANGED <<users, orders, next_user_id, next_order_id, op, args, ret,
                   mutex, returned>>

\* std::lock_guard<std::mutex> lock(mutex_): waits until the mutex is free.
Lock(t) ==
    /\ thread[t].pc = "lock"
    /\ mutex = 0
    /\ mutex' = t
    /\ thread' = [thread EXCEPT ![t].pc = FirstStatement(thread[t].method)]
    /\ UNCHANGED <<users, orders, next_user_id, next_order_id, op, args, ret,
                   returned>>

\* contracts::User new_user = user;
Copy(t) ==
    /\ thread[t].pc = "copy"
    /\ thread' = [thread EXCEPT ![t].pc = "read", ![t].new = thread[t].arg]
    /\ UNCHANGED <<users, orders, next_user_id, next_order_id, op, args, ret,
                   mutex, returned>>

\* new_user.id = next_user_id_++: the read of the counter.
ReadNextId(t) ==
    /\ thread[t].pc = "read"
    /\ thread' = [thread EXCEPT ![t].pc = "write",
                                ![t].tmp = IF thread[t].method = "saveUser"
                                           THEN next_user_id ELSE next_order_id]
    /\ UNCHANGED <<users, orders, next_user_id, next_order_id, op, args, ret,
                   mutex, returned>>

\* new_user.id = next_user_id_++: the write of the counter and of the id.
WriteNextId(t) ==
    /\ thread[t].pc = "write"
    /\ \/ /\ thread[t].method = "saveUser"
          /\ next_user_id' = thread[t].tmp + 1
          /\ UNCHANGED next_order_id
       \/ /\ thread[t].method = "saveOrder"
          /\ next_order_id' = thread[t].tmp + 1
          /\ UNCHANGED next_user_id
    /\ thread' = [thread EXCEPT ![t].pc = "store", ![t].new.id = thread[t].tmp]
    /\ UNCHANGED <<users, orders, op, args, ret, mutex, returned>>

\* users_[new_user.id] = new_user;
Store(t) ==
    /\ thread[t].pc = "store"
    /\ \/ /\ thread[t].method = "saveUser"
          /\ users' = Put(users, thread[t].new.id, thread[t].new)
          /\ UNCHANGED orders
       \/ /\ thread[t].method = "saveOrder"
          /\ orders' = Put(orders, thread[t].new.id, thread[t].new)
          /\ UNCHANGED users
    /\ thread' = [thread EXCEPT ![t].pc = "return"]
    /\ UNCHANGED <<next_user_id, next_order_id, op, args, ret, mutex, returned>>

\* return new_user.id; and the lock_guard's destructor, which unlocks.
Return(t) ==
    /\ thread[t].pc = "return"
    /\ returned' = [returned EXCEPT ![thread[t].method] =
                        Append(@, [thread |-> t, id |-> thread[t].new.id])]
    /\ mutex' = 0
    /\ thread' = [thread EXCEPT ![t] = Idle]
    /\ UNCHANGED <<users, orders, next_user_id, next_order_id, op, args, ret>>

SaveNext ==
    \E t \in Threads :
        \/ Begin(t)
        \/ Lock(t)
        \/ Copy(t)
        \/ ReadNextId(t)
        \/ WriteNextId(t)
        \/ Store(t)
        \/ Return(t)

SaveSpec == Init /\ [][SaveNext]_vars

-----------------------------------------------------------------------------
(* UserService and OrderService called from several threads at once.  A    *)
(* database call is one step (it holds the mutex from its first statement  *)
(* to its return); a service method that makes two database calls is two   *)
(* steps, and between them the thread holds what it read in its locals     *)
(* while the other threads run.                                            *)

\* The statuses the threads pass to updateOrderStatus.
Downstream == {"SHIPPED", "DELIVERED"}

\* A thread in `method`, called with `arg`, about to make the database call
\* `pc` with the record `new`.
Pending(pc, method, arg, new) ==
    [pc |-> pc, method |-> method, arg |-> arg, new |-> new, tmp |-> 0]

\* Thread t makes a database call that leaves the database db, and goes on
\* as `frame`.
Do(t, db, frame) ==
    /\ mutex = 0
    /\ db.next_user_id <= MaxUsers + 1
    /\ db.next_order_id <= MaxOrders + 1
    /\ users' = db.users
    /\ orders' = db.orders
    /\ next_user_id' = db.next_user_id
    /\ next_order_id' = db.next_order_id
    /\ thread' = [thread EXCEPT ![t] = frame]
    /\ UNCHANGED <<op, args, ret, mutex, returned>>

\* createOrder's checks without the one of is_active.
createOrderRefuses_Inactive(user, product_name, amount) ==
    \/ ~user.has_value
    \/ ~isValidProductName(product_name)
    \/ ~isValidAmount(amount)

\* createOrder's checks without the one of has_value.
createOrderRefuses_Unknown(user, product_name, amount) ==
    \/ (user.has_value /\ ~user.value.is_active)
    \/ ~isValidProductName(product_name)
    \/ ~isValidAmount(amount)

\* createOrder's three checks on the user it read and its arguments.
createOrderRefuses(user, product_name, amount) ==
    \/ ~user.has_value
    \/ ~user.value.is_active
    \/ ~isValidProductName(product_name)
    \/ ~isValidAmount(amount)

\* The order createOrder builds.
newOrder(user_id, product_name, amount) ==
    [id |-> 0, user_id |-> user_id, product_name |-> product_name,
     amount |-> amount, status |-> "PENDING"]

\* createUser: its checks and its saveUser.
ThreadCreateUser(t) ==
    /\ thread[t].pc = "idle"
    /\ \E name \in Names, email \in Emails :
          Do(t, createUser(Database, name, email).db, Idle)

\* deactivateUser flipping is_active, up to its updateUser.
DeactivateUserFind_Toggle(t) ==
    /\ thread[t].pc = "idle"
    /\ \E id \in UserIdArgs :
          LET user == findUserById(Database, id)
          IN  IF ~user.has_value
              THEN Do(t, Database, Idle)
              ELSE Do(t, Database,
                      Pending("updateUser", "deactivateUser", [id |-> id],
                              [user.value EXCEPT !.is_active = ~@]))

\* deactivateUser up to its updateUser: findUserById, and return false if
\* there is no user.
DeactivateUserFind(t) ==
    /\ thread[t].pc = "idle"
    /\ \E id \in UserIdArgs :
          LET user == findUserById(Database, id)
          IN  IF ~user.has_value
              THEN Do(t, Database, Idle)
              ELSE Do(t, Database,
                      Pending("updateUser", "deactivateUser", [id |-> id],
                              [user.value EXCEPT !.is_active = FALSE]))

\* deactivateUser's updateUser(*user) and return.
DeactivateUserUpdate(t) ==
    /\ thread[t].pc = "updateUser"
    /\ Do(t, updateUser(Database, thread[t].new).db, Idle)

\* createOrder up to its saveOrder: getUser, the checks, the order built.
CreateOrderGetUser(t) ==
    /\ thread[t].pc = "idle"
    /\ \E user_id \in UserIdArgs, product_name \in ProductNames, amount \in Amounts :
          LET user == getUser(Database, user_id)
          IN  IF createOrderRefuses(user, product_name, amount)
              THEN Do(t, Database, Idle)
              ELSE Do(t, Database,
                      Pending("saveOrder", "createOrder",
                              [user_id |-> user_id, product_name |-> product_name,
                               amount |-> amount],
                              newOrder(user_id, product_name, amount)))

\* createOrder's saveOrder(order) and return.
CreateOrderSaveOrder(t) ==
    /\ thread[t].pc = "saveOrder"
    /\ Do(t, saveOrder(Database, thread[t].new).db, Idle)

\* updateOrderStatus up to its updateOrder: findOrderById, and return false
\* if there is no order.
UpdateOrderStatusFind(t) ==
    /\ thread[t].pc = "idle"
    /\ \E id \in OrderIdArgs, status \in Downstream :
          LET order == findOrderById(Database, id)
          IN  IF ~order.has_value
              THEN Do(t, Database, Idle)
              ELSE Do(t, Database,
                      Pending("updateOrder", "updateOrderStatus",
                              [id |-> id, status |-> status],
                              [order.value EXCEPT !.status = status]))

\* cancelOrder up to its updateOrder: findOrderById, and return false if
\* there is no order or canCancel refuses its status.
CancelOrderFind(t) ==
    /\ thread[t].pc = "idle"
    /\ \E id \in OrderIdArgs :
          LET order == findOrderById(Database, id)
          IN  IF ~order.has_value
              THEN Do(t, Database, Idle)
              ELSE IF ~canCancel(order.value.status)
              THEN Do(t, Database, Idle)
              ELSE Do(t, Database,
                      Pending("updateOrder", "cancelOrder", [id |-> id],
                              [order.value EXCEPT !.status = "CANCELLED"]))

\* updateOrderStatus's and cancelOrder's updateOrder(*order) and return.
OrderUpdate(t) ==
    /\ thread[t].pc = "updateOrder"
    /\ Do(t, updateOrder(Database, thread[t].new).db, Idle)

\* The methods that only read: getUser, getActiveUsers, userExists, getOrder,
\* getUserOrders, getTotalAmount.
ThreadQuery(t) ==
    /\ thread[t].pc = "idle"
    /\ Do(t, Database, Idle)

\* InMemoryDatabase::deleteUser and clear, called on the database itself.
ThreadDeleteUser(t) ==
    /\ thread[t].pc = "idle"
    /\ \E id \in UserIdArgs : Do(t, deleteUser(Database, id).db, Idle)

ThreadClear(t) ==
    /\ thread[t].pc = "idle"
    /\ Do(t, clear(Database).db, Idle)

\* The services alone.
ManagerNext ==
    \E t \in Threads :
        \/ ThreadCreateUser(t)
        \/ DeactivateUserFind(t)
        \/ DeactivateUserUpdate(t)
        \/ CreateOrderGetUser(t)
        \/ CreateOrderSaveOrder(t)
        \/ UpdateOrderStatusFind(t)
        \/ CancelOrderFind(t)
        \/ OrderUpdate(t)
        \/ ThreadQuery(t)

ManagerSpec == Init /\ [][ManagerNext]_vars

\* The services and the database.
RaceNext ==
    \/ ManagerNext
    \/ \E t \in Threads : ThreadDeleteUser(t)
    \/ \E t \in Threads : ThreadClear(t)

RaceSpec == Init /\ [][RaceNext]_vars

-----------------------------------------------------------------------------
(* The services and the database called from several threads at once, with *)
(* the mutex: every database method waits for the mutex, runs its body and *)
(* unlocks as it returns.  The body is one step, but for `it->second =     *)
(* record` of updateUser and updateOrder, a member-wise assignment, which  *)
(* is two, and for clear(), which empties the maps and then resets the     *)
(* counters.  A thread chooses the arguments of a call when the call runs. *)

\* Most records of each kind the store holds when the threads contend.
MaxRecords == 1

\* The service methods that make one database call and only read, and
\* findAllOrders, which no service calls.
Queries ==
    {"getUser", "getActiveUsers", "userExists", "getOrder", "getUserOrders",
     "getTotalAmount", "findAllOrders"}

\* The methods a thread calls.  updateUser is the database's, called with a
\* record that no service builds.
LockMethods ==
    Queries \cup {"createUser", "deactivateUser", "createOrder",
                  "updateOrderStatus", "cancelOrder", "updateUser",
                  "deleteUser", "deleteOrder", "clear"}

UpdatedUser(id) ==
    [id |-> id, name |-> <<"K">>, email |-> <<"k", "@", "y">>, is_active |-> FALSE]

\* The calls of `method` in progress.
Running(method) == Cardinality({t \in Threads : thread[t].method = method})

\* Thread t calls a method and comes to the lock_guard of its first database
\* call.  createUser here is a call with a valid name and e-mail (one with
\* invalid arguments returns without a database call).
Invoke(t) ==
    /\ thread[t].pc = "idle"
    /\ \E method \in LockMethods :
          /\ method = "createUser" => next_user_id + Running(method) <= MaxRecords
          /\ method = "createOrder" => next_order_id + Running(method) <= MaxRecords
          /\ IF method = "updateUser"
             THEN \E id \in UserIdArgs :
                     thread' = [thread EXCEPT ![t] = [Idle EXCEPT !.pc = "lock",
                                                                 !.method = method,
                                                                 !.new = UpdatedUser(id),
                                                                 !.tmp = 1]]
             ELSE thread' = [thread EXCEPT ![t] = [Idle EXCEPT !.pc = "lock",
                                                              !.method = method]]
    /\ UNCHANGED <<users, orders, next_user_id, next_order_id, op, args, ret,
                   mutex, returned>>

\* The body of a database method leaves the database db, and thread t goes
\* on as `frame`.
Body(t, db, frame) ==
    /\ thread[t].pc = "body"
    /\ users' = db.users
    /\ orders' = db.orders
    /\ next_user_id' = db.next_user_id
    /\ next_order_id' = db.next_order_id
    /\ thread' = [thread EXCEPT ![t] = frame]
    /\ UNCHANGED <<op, args, ret, mutex, returned>>

\* Thread t at the return of its database call, the last of its method.
Last(t) == [thread[t] EXCEPT !.pc = "unlock"]

\* Thread t at the return of its first database call, with the record its
\* second call writes.
More(t, record) == [thread[t] EXCEPT !.pc = "next", !.new = record, !.tmp = 1]

\* createUser's saveUser.
SaveUserBody(t) ==
    /\ thread[t].method = "createUser"
    /\ \E name \in Names, email \in Emails :
          /\ isValidName(name)
          /\ isValidEmail(email)
          /\ Body(t, createUser(Database, name, email).db, Last(t))

\* deactivateUser's findUserById.
FindUserBody(t) ==
    /\ thread[t].method = "deactivateUser"
    /\ thread[t].tmp = 0
    /\ \E id \in UserIdArgs :
          LET user == findUserById(Database, id)
          IN  IF ~user.has_value
              THEN Body(t, Database, Last(t))
              ELSE Body(t, Database, More(t, [user.value EXCEPT !.is_active = FALSE]))

\* createOrder's getUser.
GetUserBody(t) ==
    /\ thread[t].method = "createOrder"
    /\ thread[t].tmp = 0
    /\ \E user_id \in UserIdArgs, product_name \in ProductNames, amount \in Amounts :
          LET user == getUser(Database, user_id)
          IN  IF createOrderRefuses(user, product_name, amount)
              THEN Body(t, Database, Last(t))
              ELSE Body(t, Database, More(t, newOrder(user_id, product_name, amount)))

\* createOrder's saveOrder.
SaveOrderBody(t) ==
    /\ thread[t].method = "createOrder"
    /\ thread[t].tmp = 1
    /\ Body(t, saveOrder(Database, thread[t].new).db, Last(t))

\* updateOrderStatus's and cancelOrder's findOrderById.
FindOrderBody(t) ==
    /\ thread[t].method \in {"updateOrderStatus", "cancelOrder"}
    /\ thread[t].tmp = 0
    /\ \E id \in OrderIdArgs, status \in Downstream :
          LET order == findOrderById(Database, id)
          IN  IF ~order.has_value
              THEN Body(t, Database, Last(t))
              ELSE IF thread[t].method = "updateOrderStatus"
              THEN Body(t, Database, More(t, [order.value EXCEPT !.status = status]))
              ELSE IF ~canCancel(order.value.status)
              THEN Body(t, Database, Last(t))
              ELSE Body(t, Database, More(t, [order.value EXCEPT !.status = "CANCELLED"]))

\* The methods whose last database call is updateUser, and updateOrder.
UserUpdaters == {"deactivateUser", "updateUser"}
OrderUpdaters == {"updateOrderStatus", "cancelOrder"}

\* `it->second = record` after its first members (id, name; id, user_id,
\* product_name) are assigned and before the rest are.
AssignFirst(old, record) ==
    IF "name" \in DOMAIN record
    THEN [old EXCEPT !.id = record.id, !.name = record.name]
    ELSE [old EXCEPT !.id = record.id, !.user_id = record.user_id,
                     !.product_name = record.product_name]

\* updateUser and updateOrder: find(record.id), return false at end(), else
\* begin the assignment.
UpdateBegin(t) ==
    /\ thread[t].method \in UserUpdaters \cup OrderUpdaters
    /\ thread[t].tmp = 1
    /\ LET record == thread[t].new
       IN  IF thread[t].method \in UserUpdaters
           THEN IF record.id \in DOMAIN users
                THEN Body(t, [Database EXCEPT !.users =
                                 Put(@, record.id, AssignFirst(users[record.id], record))],
                          [thread[t] EXCEPT !.pc = "assign"])
                ELSE Body(t, Database, Last(t))
           ELSE IF record.id \in DOMAIN orders
                THEN Body(t, [Database EXCEPT !.orders =
                                 Put(@, record.id, AssignFirst(orders[record.id], record))],
                          [thread[t] EXCEPT !.pc = "assign"])
                ELSE Body(t, Database, Last(t))

\* The rest of the assignment, and return true.
UpdateEnd(t) ==
    /\ thread[t].pc = "assign"
    /\ IF thread[t].method \in UserUpdaters
       THEN /\ users' = Put(users, thread[t].new.id, thread[t].new)
            /\ UNCHANGED orders
       ELSE /\ orders' = Put(orders, thread[t].new.id, thread[t].new)
            /\ UNCHANGED users
    /\ thread' = [thread EXCEPT ![t].pc = "unlock"]
    /\ UNCHANGED <<next_user_id, next_order_id, op, args, ret, mutex, returned>>

\* What the database call of a query returns, as the set of its records.
Found(method, id) ==
    CASE method \in {"getUser", "userExists"} ->
             LET user == findUserById(Database, id)
             IN  IF user.has_value THEN {user.value} ELSE {}
      [] method = "getActiveUsers" -> findAllUsers(Database)
      [] method = "getOrder" ->
             LET order == findOrderById(Database, id)
             IN  IF order.has_value THEN {order.value} ELSE {}
      [] method \in {"getUserOrders", "getTotalAmount"} -> findOrdersByUserId(Database, id)
      [] method = "findAllOrders" -> findAllOrders(Database)

\* The database call of a query: the thread holds what it read.
QueryBody(t) ==
    /\ thread[t].method \in Queries
    /\ \E id \in UserIdArgs \cup OrderIdArgs :
          Body(t, Database, [Last(t) EXCEPT !.new = Found(thread[t].method, id)])

\* deleteUser and deleteOrder.
DeleteBody(t) ==
    \/ /\ thread[t].method = "deleteUser"
       /\ \E id \in UserIdArgs : Body(t, deleteUser(Database, id).db, Last(t))
    \/ /\ thread[t].method = "deleteOrder"
       /\ \E id \in OrderIdArgs : Body(t, deleteOrder(Database, id).db, Last(t))

\* clear: users_.clear(); orders_.clear();
ClearMaps(t) ==
    /\ thread[t].method = "clear"
    /\ Body(t, [Database EXCEPT !.users = EmptyMap, !.orders = EmptyMap],
            [thread[t] EXCEPT !.pc = "counters"])

\* clear: next_user_id_ = 1; next_order_id_ = 1;
ClearCounters(t) ==
    /\ thread[t].pc = "counters"
    /\ next_user_id' = 1
    /\ next_order_id' = 1
    /\ thread' = [thread EXCEPT ![t].pc = "unlock"]
    /\ UNCHANGED <<users, orders, op, args, ret, mutex, returned>>

\* The lock_guard's destructor leaving the mutex locked.
Unlock_KeepLocked(t) ==
    /\ thread[t].pc \in {"unlock", "next"}
    /\ thread' = [thread EXCEPT ![t] = IF thread[t].pc = "next"
                                       THEN [thread[t] EXCEPT !.pc = "lock"]
                                       ELSE Idle]
    /\ UNCHANGED <<users, orders, next_user_id, next_order_id, op, args, ret,
                   mutex, returned>>

\* The lock_guard's destructor as the database call returns: the mutex is
\* unlocked, and the method returns or comes to the lock_guard of its second
\* database call.
Unlock(t) ==
    /\ thread[t].pc \in {"unlock", "next"}
    /\ mutex' = 0
    /\ thread' = [thread EXCEPT ![t] = IF thread[t].pc = "next"
                                       THEN [thread[t] EXCEPT !.pc = "lock"]
                                       ELSE Idle]
    /\ UNCHANGED <<users, orders, next_user_id, next_order_id, op, args, ret,
                   returned>>

\* The steps of a call of thread t once it is invoked.
Step(t) ==
    \/ Lock(t)
    \/ SaveUserBody(t)
    \/ FindUserBody(t)
    \/ GetUserBody(t)
    \/ SaveOrderBody(t)
    \/ FindOrderBody(t)
    \/ UpdateBegin(t)
    \/ UpdateEnd(t)
    \/ QueryBody(t)
    \/ DeleteBody(t)
    \/ ClearMaps(t)
    \/ ClearCounters(t)
    \/ Unlock(t)

LockNext == \E t \in Threads : Invoke(t) \/ Step(t)

LockSpec == Init /\ [][LockNext]_vars

\* Every thread that can take a step of its call does in the end, and a
\* thread that waits for the mutex gets it if the mutex is free again and
\* again.
FairLockSpec ==
    /\ LockSpec
    /\ \A t \in Threads : WF_vars(Step(t)) /\ SF_vars(Lock(t))

-----------------------------------------------------------------------------
(* The database called on its own, one call at a time, with records no     *)
(* service builds: any id on the record, an empty name, an owner that is   *)
(* not stored.                                                             *)

\* The records saveUser and updateUser, saveOrder and updateOrder are called
\* with: the sentinel, 0 and the ids a store assigns as id.
UserRecords ==
    {[id |-> id, name |-> name, email |-> <<"x">>, is_active |-> is_active] :
        id \in -1 .. MaxUsers, name \in Names, is_active \in BOOLEAN}
OrderRecords ==
    {[id |-> id, user_id |-> user_id, product_name |-> <<"P">>, amount |-> 2,
      status |-> status] :
        id \in -1 .. MaxOrders, user_id \in UserIdArgs, status \in {"PENDING", "SHIPPED"}}

\* The call `o` of the database with argument `a` returns r.ret and leaves
\* the database r.db; `returned` holds the saves since the last clear().
StoreCall(o, a, r) ==
    /\ mutex = 0
    /\ UNCHANGED <<mutex, thread>>
    /\ r.db.next_user_id <= MaxUsers + 1
    /\ r.db.next_order_id <= MaxOrders + 1
    /\ users' = r.db.users
    /\ orders' = r.db.orders
    /\ next_user_id' = r.db.next_user_id
    /\ next_order_id' = r.db.next_order_id
    /\ op' = o
    /\ args' = a
    /\ ret' = r.ret
    /\ returned' = IF o \in {"saveUser", "saveOrder"}
                   THEN [returned EXCEPT ![o] = Append(@, [thread |-> 1, id |-> r.ret])]
                   ELSE IF o = "clear"
                   THEN [saveUser |-> <<>>, saveOrder |-> <<>>]
                   ELSE returned

StoreSaveUser == \E user \in UserRecords : StoreCall("saveUser", user, saveUser(Database, user))

StoreSaveOrder ==
    \E order \in OrderRecords : StoreCall("saveOrder", order, saveOrder(Database, order))

StoreUpdateUser ==
    \E user \in UserRecords : StoreCall("updateUser", user, updateUser(Database, user))

StoreUpdateOrder ==
    \E order \in OrderRecords : StoreCall("updateOrder", order, updateOrder(Database, order))

StoreDeleteUser ==
    \E id \in UserIdArgs : StoreCall("deleteUser", [id |-> id], deleteUser(Database, id))

StoreDeleteOrder ==
    \E id \in OrderIdArgs : StoreCall("deleteOrder", [id |-> id], deleteOrder(Database, id))

StoreClear == StoreCall("clear", <<>>, clear(Database))

StoreNext ==
    \/ StoreSaveUser
    \/ StoreSaveOrder
    \/ StoreUpdateUser
    \/ StoreUpdateOrder
    \/ StoreDeleteUser
    \/ StoreDeleteOrder
    \/ StoreClear

StoreSpec == Init /\ [][StoreNext]_vars

-----------------------------------------------------------------------------
(* Properties.  A property about a call is stated of every call the        *)
(* program can make in a reachable state (the method applied to Database)  *)
(* and of the call the state records (op, args, ret).                      *)

\* C1: createOrder returns -1 whenever the owner is unknown, or inactive, or
\* the product name is empty, or the amount is not positive, in every
\* reachable state and for every combination of the four.
C1_CreateOrderRejects ==
    /\ \A u \in AnyUserId, p \in ProductNames, a \in Amounts :
          (\/ u \notin DOMAIN users
           \/ ~users[u].is_active
           \/ Len(p) = 0
           \/ a <= 0)
          => createOrder(Database, u, p, a).ret = -1
    /\ (/\ op = "createOrder"
        /\ \/ args.user_id \notin DOMAIN users
           \/ ~users[args.user_id].is_active
           \/ Len(args.product_name) = 0
           \/ args.amount <= 0)
       => ret = -1

\* A createOrder for an active owner and a named product was refused for its
\* amount alone.
C1_Witness ==
    /\ op = "createOrder"
    /\ ret = -1
    /\ args.user_id \in DOMAIN users
    /\ users[args.user_id].is_active
    /\ Len(args.product_name) > 0
    /\ args.amount <= 0

\* C2: when the owner exists and is active, the product name is non-empty
\* and the amount positive, createOrder returns a positive id, and getOrder
\* on that id right after returns a PENDING order with the owner, product
\* name and amount passed in.
C2_CreateOrderStoresPending ==
    \A u \in AnyUserId, p \in ProductNames, a \in Amounts :
        (/\ u \in DOMAIN users
         /\ users[u].is_active
         /\ Len(p) > 0
         /\ a > 0)
        => LET r == createOrder(Database, u, p, a)
           IN  /\ r.ret > 0
               /\ getOrder(r.db, r.ret)
                    = Some([id |-> r.ret, user_id |-> u, product_name |-> p,
                            amount |-> a, status |-> "PENDING"])

\* A createOrder has returned a positive id under which getOrder finds the
\* PENDING order it was called for.
C2_Witness ==
    /\ op = "createOrder"
    /\ ret > 0
    /\ getOrder(Database, ret)
         = Some([id |-> ret, user_id |-> args.user_id,
                 product_name |-> args.product_name, amount |-> args.amount,
                 status |-> "PENDING"])

\* C3: createUser returns -1 and stores no user whenever the e-mail holds
\* no '@', even for a non-empty name and a non-empty e-mail.
C3_CreateUserRejectsNoAt ==
    /\ (op = "createUser" /\ ~contains(args.email, "@")) => ret = -1
    /\ \A id \in DOMAIN users : contains(users[id].email, "@")

\* C4: createUser returns -1 whenever the name is empty or the e-mail is
\* empty, in every state of the store.
C4_CreateUserRejectsEmpty ==
    /\ \A n \in Names, e \in Emails :
          (Len(n) = 0 \/ Len(e) = 0) => createUser(Database, n, e).ret = -1
    /\ (op = "createUser" /\ (Len(args.name) = 0 \/ Len(args.email) = 0))
       => ret = -1

\* A createUser with a name and an empty e-mail was refused by a store that
\* holds users.
C4_Witness ==
    /\ op = "createUser"
    /\ ret = -1
    /\ Len(args.name) > 0
    /\ Len(args.email) = 0
    /\ DOMAIN users # {}

\* C5: for a non-empty name and an e-mail with '@', createUser returns a
\* positive id, and getUser on that id right after returns the user with
\* that id, that name and e-mail, and is_active true.
C5_CreateUserStoresActive ==
    \A n \in Names, e \in Emails :
        (Len(n) > 0 /\ contains(e, "@"))
        => LET r == createUser(Database, n, e)
           IN  /\ r.ret > 0
               /\ getUser(r.db, r.ret)
                    = Some([id |-> r.ret, name |-> n, email |-> e,
                            is_active |-> TRUE])

\* A createUser with a valid name and e-mail has returned a positive id
\* under which getUser finds the active user it was called for.
C5_Witness ==
    /\ op = "createUser"
    /\ ret > 0
    /\ contains(args.email, "@")
    /\ getUser(Database, ret)
         = Some([id |-> ret, name |-> args.name, email |-> args.email,
                 is_active |-> TRUE])

\* C6: cancelOrder returns false for an unknown order; returns false and
\* leaves the order as it is when it is SHIPPED or DELIVERED; and for a
\* PENDING or CONFIRMED order returns true and leaves it CANCELLED.
C6_CancelOrderGuard ==
    \A id \in AnyOrderId :
        LET r == cancelOrder(Database, id)
        IN  /\ id \notin DOMAIN orders => r.ret = FALSE
            /\ (id \in DOMAIN orders /\ orders[id].status \in {"SHIPPED", "DELIVERED"})
               => (r.ret = FALSE /\ getOrder(r.db, id) = getOrder(Database, id))
            /\ (id \in DOMAIN orders /\ orders[id].status \in {"PENDING", "CONFIRMED"})
               => (r.ret = TRUE /\ getOrder(r.db, id).value.status = "CANCELLED")

\* A cancelOrder of a SHIPPED order was refused.
C6_Witness ==
    /\ op = "cancelOrder"
    /\ ret = FALSE
    /\ args.id \in DOMAIN orders
    /\ orders[args.id].status = "SHIPPED"

\* C7, as claimed: cancelOrder of an order that is already CANCELLED returns
\* true and leaves it CANCELLED (cancelOrder; cancelOrder returns true twice).
C7_CancelCancelledReturnsTrue ==
    (/\ op = "cancelOrder"
     /\ args.id \in DOMAIN orders
     /\ orders[args.id].status = "CANCELLED")
    => ret = TRUE

\* C7, amended: cancelOrder of an order that is already CANCELLED returns
\* false and leaves the database as it is, the order still CANCELLED.
C7_CancelCancelledReturnsFalse ==
    \A id \in DOMAIN orders :
        orders[id].status = "CANCELLED"
        => LET r == cancelOrder(Database, id)
           IN  /\ r.ret = FALSE
               /\ r.db = Database
               /\ getOrder(r.db, id).value.status = "CANCELLED"

\* A cancelOrder of a CANCELLED order has returned false.
C7_Witness ==
    /\ op = "cancelOrder"
    /\ ret = FALSE
    /\ args.id \in DOMAIN orders
    /\ orders[args.id].status = "CANCELLED"

\* C8: updateOrderStatus returns false for an unknown order; for a stored
\* order, whatever its status, and every new status it returns true and
\* leaves the order with the new status.
C8_UpdateOrderStatusAnyToAny ==
    \A id \in AnyOrderId, t \in OrderStatus :
        LET r == updateOrderStatus(Database, id, t)
        IN  /\ id \notin DOMAIN orders => r.ret = FALSE
            /\ id \in DOMAIN orders
               => (r.ret = TRUE /\ getOrder(r.db, id).value.status = t)

\* An updateOrderStatus has returned true and left its order SHIPPED, a
\* status no other operation sets.
C8_Witness ==
    /\ op = "updateOrderStatus"
    /\ ret = TRUE
    /\ args.id \in DOMAIN orders
    /\ args.status = "SHIPPED"
    /\ orders[args.id].status = "SHIPPED"

\* The amount order `id` adds to the total of `user_id`.
Counted(id, user_id) ==
    IF /\ id \in DOMAIN orders
       /\ orders[id].user_id = user_id
       /\ orders[id].status # "CANCELLED"
    THEN orders[id].amount
    ELSE 0

\* The sum of Counted over the ids 1 .. n.
RECURSIVE SumCounted(_, _)
SumCounted(n, user_id) ==
    IF n <= 0 THEN 0 ELSE Counted(n, user_id) + SumCounted(n - 1, user_id)

\* C9: getTotalAmount(u) is the sum of the amounts of the stored orders of u
\* that are not CANCELLED; cancelling an order lowers its owner's total by
\* its amount, and setting a CANCELLED order to another status raises it by
\* its amount.
C9_TotalExcludesCancelled ==
    /\ \A u \in AnyUserId :
          getTotalAmount(Database, u) = SumCounted(next_order_id - 1, u)
    /\ op = "getTotalAmount" => ret = SumCounted(next_order_id - 1, args.user_id)
    /\ \A id \in DOMAIN orders :
          LET o == orders[id]
              total == getTotalAmount(Database, o.user_id)
          IN  /\ o.status \in {"PENDING", "CONFIRMED"}
                 => getTotalAmount(cancelOrder(Database, id).db, o.user_id)
                      = total - o.amount
              /\ o.status = "CANCELLED"
                 => \A t \in OrderStatus \ {"CANCELLED"} :
                       getTotalAmount(updateOrderStatus(Database, id, t).db, o.user_id)
                         = total + o.amount

\* A getTotalAmount has returned the amount of the one order of two of the
\* same owner that is not CANCELLED.
C9_Witness ==
    /\ op = "getTotalAmount"
    /\ \E i, j \in DOMAIN orders :
          /\ orders[i].user_id = args.user_id
          /\ orders[j].user_id = args.user_id
          /\ orders[i].status = "CANCELLED"
          /\ orders[j].status # "CANCELLED"
          /\ ret = orders[j].amount
          /\ ret > 0

\* C10: getTotalAmount(u) is 0 whenever no stored order has owner u, whether
\* a user u exists, never existed, is inactive or was removed.
C10_TotalZeroWithoutOrders ==
    /\ \A u \in AnyUserId :
          (\A id \in DOMAIN orders : orders[id].user_id # u)
          => getTotalAmount(Database, u) = 0
    /\ (/\ op = "getTotalAmount"
        /\ \A id \in DOMAIN orders : orders[id].user_id # args.user_id)
       => ret = 0

\* A getTotalAmount for a removed user without orders has returned 0 while
\* another owner's order counts.
C10_Witness ==
    /\ op = "getTotalAmount"
    /\ ret = 0
    /\ args.user_id \notin DOMAIN users
    /\ args.user_id < next_user_id
    /\ \E id \in DOMAIN orders :
          orders[id].user_id # args.user_id /\ orders[id].status # "CANCELLED"

\* C11: getUserOrders(u) is exactly the stored orders whose user_id is u,
\* whatever their status: an id is listed for u exactly when getOrder finds
\* it with owner u, a listed order is the stored one, a successful createOrder
\* for u adds its order to u's list and to no other, and a status change
\* moves no order between lists.
C11_UserOrdersExactlyOwned ==
    /\ \A u \in AnyUserId :
          /\ \A id \in AnyOrderId :
                (\E o \in getUserOrders(Database, u) : o.id = id)
                <=> (/\ getOrder(Database, id).has_value
                     /\ getOrder(Database, id).value.user_id = u)
          /\ \A o \in getUserOrders(Database, u) : getOrder(Database, o.id) = Some(o)
    /\ \A u \in AnyUserId, p \in ProductNames, a \in Amounts :
          LET r == createOrder(Database, u, p, a)
          IN  r.ret # -1 =>
                \A v \in AnyUserId :
                    getUserOrders(r.db, v) =
                        getUserOrders(Database, v)
                            \cup (IF v = u THEN {getOrder(r.db, r.ret).value} ELSE {})
    /\ \A id \in AnyOrderId, t \in OrderStatus, v \in AnyUserId :
          {o.id : o \in getUserOrders(updateOrderStatus(Database, id, t).db, v)}
              = {o.id : o \in getUserOrders(Database, v)}
    /\ op = "getUserOrders" =>
          /\ \A id \in DOMAIN orders :
                orders[id] \in ret <=> orders[id].user_id = args.user_id
          /\ \A o \in ret : o.id \in DOMAIN orders /\ orders[o.id] = o

\* A getUserOrders has returned the one order of its owner, which is no
\* longer PENDING, while an order of another owner is stored.
C11_Witness ==
    /\ op = "getUserOrders"
    /\ Cardinality(ret) = 1
    /\ \A o \in ret : o.user_id = args.user_id /\ o.status # "PENDING"
    /\ \E id \in DOMAIN orders : orders[id].user_id # args.user_id

\* C12: deactivateUser(id) returns false and leaves the database as it was
\* when no user has that id; when one has, it returns true and getUser(id)
\* then returns that user with is_active false.
C12_DeactivateUser ==
    /\ \A id \in AnyUserId :
          LET r == deactivateUser(Database, id)
          IN  IF ~getUser(Database, id).has_value
              THEN r.ret = FALSE /\ r.db = Database
              ELSE /\ r.ret = TRUE
                   /\ getUser(r.db, id).has_value
                   /\ getUser(r.db, id).value.id = id
                   /\ getUser(r.db, id).value.is_active = FALSE
    /\ op = "deactivateUser" =>
          IF ret
          THEN getUser(Database, args.id).has_value
               /\ ~getUser(Database, args.id).value.is_active
          ELSE ~getUser(Database, args.id).has_value

\* A deactivateUser has returned true and left its user inactive, next to
\* another user who is active.
C12_Witness ==
    /\ op = "deactivateUser"
    /\ ret = TRUE
    /\ ~users[args.id].is_active
    /\ \E id \in DOMAIN users : users[id].is_active

\* C13: deactivateUser of a user who is already inactive returns true and
\* leaves the whole database (that user, the other users, the orders, both
\* counters) as it was.
C13_DeactivateUserIdempotent ==
    \A id \in AnyUserId :
        (getUser(Database, id).has_value /\ ~getUser(Database, id).value.is_active)
        => deactivateUser(Database, id) = Result(TRUE, Database)

\* A deactivateUser has returned true for a user who owns an order, the user
\* is inactive, and deactivating again gives the same database.
C13_Witness ==
    /\ op = "deactivateUser"
    /\ ret = TRUE
    /\ ~users[args.id].is_active
    /\ \E id \in DOMAIN orders : orders[id].user_id = args.id
    /\ deactivateUser(Database, args.id).db = Database

\* C14: deactivateUser leaves every order as getOrder returned it before; an
\* order of an inactive user still takes any status from updateOrderStatus;
\* and createOrder for an inactive user returns -1 whatever the product name
\* and amount.
C14_DeactivationKeepsOrders ==
    /\ \A u \in AnyUserId :
          LET r == deactivateUser(Database, u)
          IN  /\ \A id \in AnyOrderId : getOrder(r.db, id) = getOrder(Database, id)
              /\ r.ret =>
                    /\ \A p \in ProductNames, a \in Amounts :
                          createOrder(r.db, u, p, a) = Result(-1, r.db)
                    /\ \A id \in DOMAIN orders, t \in OrderStatus :
                          orders[id].user_id = u =>
                             LET s == updateOrderStatus(r.db, id, t)
                             IN  /\ s.ret = TRUE
                                 /\ getOrder(s.db, id) = Some([orders[id] EXCEPT !.status = t])
    /\ (/\ op = "createOrder"
        /\ args.user_id \in DOMAIN users
        /\ ~users[args.user_id].is_active) => ret = -1
    /\ (/\ op = "updateOrderStatus"
        /\ args.id \in DOMAIN orders
        /\ orders[args.id].user_id \in DOMAIN users
        /\ ~users[orders[args.id].user_id].is_active)
       => ret = TRUE /\ orders[args.id].status = args.status

\* An updateOrderStatus has returned true for an order whose owner is
\* inactive, and left it SHIPPED.
C14_Witness ==
    /\ op = "updateOrderStatus"
    /\ ret = TRUE
    /\ orders[args.id].status = "SHIPPED"
    /\ orders[args.id].user_id \in DOMAIN users
    /\ ~users[orders[args.id].user_id].is_active

\* C15: for every id, userExists(id) is true exactly when getUser(id) holds a
\* value; a createUser that returns an id leaves both reporting that id; and
\* a user both report stays reported by both across every call other than
\* deleteUser of that id and clear.
C15_UserExistsIffGetUser ==
    /\ [](/\ \A id \in AnyUserId :
                userExists(Database, id) <=> getUser(Database, id).has_value
          /\ \A name \in Names, email \in Emails :
                LET r == createUser(Database, name, email)
                IN  r.ret # -1 => userExists(r.db, r.ret) /\ getUser(r.db, r.ret).has_value
          /\ (op = "createUser" /\ ret # -1)
                => userExists(Database, ret) /\ getUser(Database, ret).has_value)
    /\ [][\A id \in AnyUserId :
             (/\ userExists(Database, id)
              /\ op' # "clear"
              /\ ~(op' = "deleteUser" /\ args'.id = id))
             => userExists(Database', id) /\ getUser(Database', id).has_value]_vars

\* A userExists has returned false, as getUser does, for an id that was
\* assigned and whose user was removed, while another user is stored.
C15_Witness ==
    /\ op = "userExists"
    /\ ret = FALSE
    /\ args.id < next_user_id
    /\ ~getUser(Database, args.id).has_value
    /\ \E id \in DOMAIN users : userExists(Database, id)

\* C16: the ids createUser has returned since the last clear are those from 1
\* up to next_user_id - 1 (the counter moves only in a createUser, by one and
\* past the id returned, and in a clear, back to 1); for every other id,
\* among them 0, -1 and the ids above, getUser holds no value and userExists
\* is false.  Likewise for createOrder, next_order_id and getOrder.
C16_UnassignedIdsUnknown ==
    /\ [](/\ \A id \in AnyUserId :
                id \notin 1 .. (next_user_id - 1)
                => ~getUser(Database, id).has_value /\ ~userExists(Database, id)
          /\ \A id \in AnyOrderId :
                id \notin 1 .. (next_order_id - 1) => ~getOrder(Database, id).has_value)
    /\ [][/\ next_user_id' # next_user_id =>
                \/ op' = "clear" /\ next_user_id' = 1
                \/ op' = "createUser" /\ ret' = next_user_id /\ next_user_id' = ret' + 1
          /\ next_order_id' # next_order_id =>
                \/ op' = "clear" /\ next_order_id' = 1
                \/ op' = "createOrder" /\ ret' = next_order_id /\ next_order_id' = ret' + 1
          /\ (op' = "createUser" /\ ret' # -1) => next_user_id' = ret' + 1
          /\ (op' = "createOrder" /\ ret' # -1) => next_order_id' = ret' + 1]_vars

\* A getUser has returned no value for an id above every id assigned, in a
\* store that holds a user and an order.
C16_Witness ==
    /\ op = "getUser"
    /\ ret = NullOpt
    /\ args.id >= next_user_id
    /\ users # EmptyMap
    /\ orders # EmptyMap

\* C17: getActiveUsers is exactly the stored users whose is_active is true:
\* an id is listed exactly when getUser finds it active, a listed user is the
\* stored one, a user createUser has just stored is listed, and a user
\* deactivateUser or deleteUser was called for is not.
C17_ActiveUsersExactlyActive ==
    /\ \A id \in AnyUserId :
          (\E u \in getActiveUsers(Database) : u.id = id)
          <=> (/\ getUser(Database, id).has_value
               /\ getUser(Database, id).value.is_active)
    /\ \A u \in getActiveUsers(Database) : getUser(Database, u.id) = Some(u)
    /\ \A name \in Names, email \in Emails :
          LET r == createUser(Database, name, email)
          IN  r.ret # -1 => getUser(r.db, r.ret).value \in getActiveUsers(r.db)
    /\ \A id \in AnyUserId :
          /\ \A u \in getActiveUsers(deactivateUser(Database, id).db) : u.id # id
          /\ \A u \in getActiveUsers(deleteUser(Database, id).db) : u.id # id
    /\ op = "getActiveUsers" =>
          ret = {users[id] : id \in {i \in DOMAIN users : users[i].is_active}}

\* A getActiveUsers has returned one user while an inactive user is stored.
C17_Witness ==
    /\ op = "getActiveUsers"
    /\ Cardinality(ret) = 1
    /\ \E id \in DOMAIN users : ~users[id].is_active

\* C18: clear leaves, from every reachable state, the database of Init: no
\* id is known to getUser, userExists or getOrder, getUserOrders and
\* getActiveUsers are empty, and the next createUser and the next createOrder
\* that store a record return 1.
C18_ClearGivesFreshDatabase ==
    /\ LET r == clear(Database)
       IN  /\ r.db = [users |-> EmptyMap, orders |-> EmptyMap,
                      next_user_id |-> 1, next_order_id |-> 1]
           /\ \A id \in AnyUserId :
                 /\ ~getUser(r.db, id).has_value
                 /\ ~userExists(r.db, id)
                 /\ getUserOrders(r.db, id) = {}
           /\ \A id \in AnyOrderId : ~getOrder(r.db, id).has_value
           /\ getActiveUsers(r.db) = {}
           /\ \A name \in Names, email \in Emails :
                 LET s == createUser(r.db, name, email)
                 IN  /\ s.ret \in {-1, 1}
                     /\ s.ret = 1 =>
                           \A u \in AnyUserId, p \in ProductNames, a \in Amounts :
                               createOrder(s.db, u, p, a).ret \in {-1, 1}
           /\ createUser(r.db, <<"J">>, <<"x", "@", "y">>).ret = 1
           /\ createOrder(createUser(r.db, <<"J">>, <<"x", "@", "y">>).db,
                          1, <<"P">>, 2).ret = 1
    /\ op = "clear" =>
          /\ users = EmptyMap
          /\ orders = EmptyMap
          /\ next_user_id = 1
          /\ next_order_id = 1

\* A clear has been called and the store is the fresh one.
C18_Witness ==
    /\ op = "clear"
    /\ Database = [users |-> EmptyMap, orders |-> EmptyMap,
                   next_user_id |-> 1, next_order_id |-> 1]

\* C19: until the next clear the counter never goes down, every stored id is
\* positive and below it, and an id createUser returns is positive, not
\* below the counter (so above every id returned before it, removed or not),
\* unused, and below the counter afterwards; a createUser that stores a user
\* does not return -1.  Likewise for createOrder.
C19_IdsStrictlyIncrease ==
    /\ [](/\ next_user_id >= 1
          /\ next_order_id >= 1
          /\ \A id \in DOMAIN users : id > 0 /\ id < next_user_id
          /\ \A id \in DOMAIN orders : id > 0 /\ id < next_order_id)
    /\ [][/\ op' # "clear" =>
                next_user_id' >= next_user_id /\ next_order_id' >= next_order_id
          /\ (op' = "createUser" /\ ret' # -1) =>
                /\ ret' > 0
                /\ ret' >= next_user_id
                /\ ret' \notin DOMAIN users
                /\ ret' < next_user_id'
          /\ (op' = "createUser" /\ users' # users) => ret' # -1
          /\ (op' = "createOrder" /\ ret' # -1) =>
                /\ ret' > 0
                /\ ret' >= next_order_id
                /\ ret' \notin DOMAIN orders
                /\ ret' < next_order_id'
          /\ (op' = "createOrder" /\ orders' # orders) => ret' # -1]_vars

\* A createUser has returned 2 after the user with id 1 was removed.
C19_Witness ==
    /\ op = "createUser"
    /\ ret = 2
    /\ DOMAIN users = {2}

\* C20: however the statements of concurrent saveUser calls interleave, no
\* two calls return the same id, every call that has returned or stored left
\* its own record under its own id (so users_ holds as many records as
\* calls have stored), and no step changes or removes a record already
\* stored.  Likewise for saveOrder.
C20_ConcurrentSavesDistinct ==
    /\ [](/\ \A i, j \in DOMAIN returned.saveUser :
                i # j => returned.saveUser[i].id # returned.saveUser[j].id
          /\ \A i, j \in DOMAIN returned.saveOrder :
                i # j => returned.saveOrder[i].id # returned.saveOrder[j].id
          /\ \A i \in DOMAIN returned.saveUser : returned.saveUser[i].id \in DOMAIN users
          /\ \A i \in DOMAIN returned.saveOrder : returned.saveOrder[i].id \in DOMAIN orders
          /\ Cardinality(DOMAIN users) =
                Len(returned.saveUser)
                + Cardinality({t \in Threads : /\ thread[t].method = "saveUser"
                                               /\ thread[t].pc = "return"})
          /\ Cardinality(DOMAIN orders) =
                Len(returned.saveOrder)
                + Cardinality({t \in Threads : /\ thread[t].method = "saveOrder"
                                               /\ thread[t].pc = "return"}))
    /\ [][/\ \A id \in DOMAIN users : id \in DOMAIN users' /\ users'[id] = users[id]
          /\ \A id \in DOMAIN orders : id \in DOMAIN orders' /\ orders'[id] = orders[id]]_vars

\* Two threads have each returned from a saveUser, with different ids, and
\* one of them has stored an order and holds the mutex while the other waits
\* for it.
C20_Witness ==
    /\ Len(returned.saveUser) = 2
    /\ returned.saveUser[1].thread # returned.saveUser[2].thread
    /\ returned.saveUser[1].id # returned.saveUser[2].id
    /\ \E t, w \in Threads :
          /\ mutex = t
          /\ thread[t].pc = "return"
          /\ thread[t].method = "saveOrder"
          /\ thread[w].pc = "lock"

\* C30: a createUser or createOrder that returns -1 leaves the database as it
\* was (both maps and both counters), so the counter moves only in a call
\* that returns an id: that id is the counter, which starts at 1, goes up by
\* one and goes back to 1 in a clear, and the ids returned since the last
\* clear are 1, 2, 3, ... without a gap.
C30_FailedCreateChangesNothing ==
    /\ [](/\ \A name \in Names, email \in Emails :
                LET r == createUser(Database, name, email)
                IN  IF r.ret = -1
                    THEN r.db = Database
                    ELSE r.ret = next_user_id /\ r.db.next_user_id = r.ret + 1
          /\ \A u \in AnyUserId, p \in ProductNames, a \in Amounts :
                LET r == createOrder(Database, u, p, a)
                IN  IF r.ret = -1
                    THEN r.db = Database
                    ELSE r.ret = next_order_id /\ r.db.next_order_id = r.ret + 1
          /\ op = "init" => next_user_id = 1 /\ next_order_id = 1
          /\ op = "clear" => next_user_id = 1 /\ next_order_id = 1)
    /\ [][/\ (op' \in {"createUser", "createOrder"} /\ ret' = -1)
                => Database' = Database
          /\ IF op' = "createUser" /\ ret' # -1
             THEN ret' = next_user_id /\ next_user_id' = ret' + 1
             ELSE op' # "clear" => next_user_id' = next_user_id
          /\ IF op' = "createOrder" /\ ret' # -1
             THEN ret' = next_order_id /\ next_order_id' = ret' + 1
             ELSE op' # "clear" => next_order_id' = next_order_id]_vars

\* A createOrder has returned -1 after one that stored order 1, and the next
\* id is still 2.
C30_Witness ==
    /\ op = "createOrder"
    /\ ret = -1
    /\ DOMAIN orders = {1}
    /\ next_order_id = 2

\* The step in which thread t makes the second database call of its method.
Writes(t, pc) == thread[t].pc = pc /\ thread'[t].pc = "idle"

\* The step in which thread t makes the first database call of a method and
\* goes on to the second.
Reads(t, pc) == thread[t].pc = "idle" /\ thread'[t].pc = pc

\* C21 as claimed: whenever a createOrder running beside deactivateUser calls
\* comes to its saveOrder, the user with the order's user_id is stored and
\* active.
C21_OwnerActiveAtSaveOrder ==
    [][\A t \in Threads :
          Writes(t, "saveOrder") =>
             /\ thread[t].new.user_id \in DOMAIN users
             /\ users[thread[t].new.user_id].is_active]_vars

\* C21, amended: the user with the order's user_id is stored and active when
\* createOrder reads it with getUser; its saveOrder then stores the order
\* built for that user whatever deactivateUser calls came in between, and
\* changes no user.
C21_OwnerActiveAtGetUser ==
    /\ [][\A t \in Threads :
             Reads(t, "saveOrder") =>
                /\ thread'[t].new.user_id \in DOMAIN users
                /\ users[thread'[t].new.user_id].is_active
                /\ users' = users]_vars
    /\ [][\A t \in Threads :
             Writes(t, "saveOrder") =>
                /\ orders' = Put(orders, next_order_id,
                                 [thread[t].new EXCEPT !.id = next_order_id])
                /\ users' = users]_vars
    /\ [](\A t \in Threads :
             thread[t].pc = "saveOrder" => thread[t].new.user_id \in DOMAIN users)

\* A createOrder has read its user active and is about to call saveOrder,
\* and the user has been deactivated since.
C21_Witness ==
    \E t \in Threads :
        /\ thread[t].pc = "saveOrder"
        /\ thread[t].new.user_id \in DOMAIN users
        /\ ~users[thread[t].new.user_id].is_active

\* C22 as claimed: whenever a createOrder running beside deleteUser and
\* clear calls comes to its saveOrder, a user with the order's user_id is
\* stored.
C22_OwnerStoredAtSaveOrder ==
    [][\A t \in Threads :
          Writes(t, "saveOrder") => thread[t].new.user_id \in DOMAIN users]_vars

\* C22, amended: a user with the order's user_id is stored when createOrder
\* reads it with getUser, and the order it goes on to save carries that
\* user_id.
C22_OwnerStoredAtGetUser ==
    /\ [][\A t \in Threads :
             Reads(t, "saveOrder") =>
                /\ getUser(Database, thread'[t].new.user_id).has_value
                /\ getUser(Database, thread'[t].new.user_id).value.id
                      = thread'[t].new.user_id
                /\ thread'[t].new.user_id = thread'[t].arg.user_id]_vars
    /\ [][\A t \in Threads :
             Writes(t, "saveOrder") =>
                /\ next_order_id \in DOMAIN orders'
                /\ orders'[next_order_id].user_id = thread[t].arg.user_id]_vars

\* A createOrder is about to call saveOrder and no user with its user_id is
\* stored any more.
C22_Witness ==
    \E t \in Threads :
        /\ thread[t].pc = "saveOrder"
        /\ thread[t].new.user_id \notin DOMAIN users

\* C25: when cancelOrder comes to its updateOrder and the stored status of
\* the order is SHIPPED or DELIVERED, the call writes nothing.
C25_CancelNeverOverwritesShipped ==
    [][\A t \in Threads :
          (/\ Writes(t, "updateOrder")
           /\ thread[t].method = "cancelOrder"
           /\ thread[t].new.id \in DOMAIN orders
           /\ orders[thread[t].new.id].status \in {"SHIPPED", "DELIVERED"})
          => orders' = orders]_vars

\* C26: the updateOrder of an updateOrderStatus or a cancelOrder changes
\* nothing but the status of the order stored under its id, also after a
\* clear and a createOrder that took the id again.
C26_OrderFieldsNeverChange ==
    [][\A t \in Threads :
          Writes(t, "updateOrder") =>
             \A id \in DOMAIN orders :
                /\ id \in DOMAIN orders'
                /\ orders'[id].id = orders[id].id
                /\ orders'[id].user_id = orders[id].user_id
                /\ orders'[id].product_name = orders[id].product_name
                /\ orders'[id].amount = orders[id].amount]_vars

\* C27: the updateUser of a deactivateUser changes nothing but is_active of
\* the user stored under its id, also after a clear and a createUser that
\* took the id again: no name, no email, no other user, no order.
C27_DeactivateChangesOnlyFlag ==
    [][\A t \in Threads :
          Writes(t, "updateUser") =>
             /\ orders' = orders
             /\ \A id \in DOMAIN users :
                   /\ id \in DOMAIN users'
                   /\ \/ users'[id] = users[id]
                      \/ /\ id = thread[t].arg.id
                         /\ users'[id] = [users[id] EXCEPT !.is_active = FALSE]]_vars

\* C28: with the services alone, a user whose is_active is false stays
\* stored and inactive in every step, whichever thread takes it.
C28_DeactivationOneWay ==
    [][\A id \in DOMAIN users :
          ~users[id].is_active => (id \in DOMAIN users' /\ ~users'[id].is_active)]_vars

\* A deactivateUser that read its user active is about to call updateUser,
\* the user has been deactivated by another call since, and a user created
\* later is active.
C28_Witness ==
    \E t \in Threads, id \in DOMAIN users :
        /\ thread[t].pc = "updateUser"
        /\ thread[t].new.id = id
        /\ ~users[id].is_active
        /\ \E other \in DOMAIN users : other > id /\ users[other].is_active

\* C29: with the services alone, no step removes a user id or an order id,
\* and the updateOrder of a cancelOrder leaves its order stored with status
\* CANCELLED.
C29_ManagersNeverRemove ==
    /\ [][/\ DOMAIN users \subseteq DOMAIN users'
          /\ DOMAIN orders \subseteq DOMAIN orders']_vars
    /\ [][\A t \in Threads :
             (Writes(t, "updateOrder") /\ thread[t].method = "cancelOrder")
             => /\ thread[t].new.id \in DOMAIN orders'
                /\ orders'[thread[t].new.id].status = "CANCELLED"]_vars

\* Two orders are stored, one of them cancelled, beside an inactive user.
C29_Witness ==
    /\ Cardinality(DOMAIN orders) = 2
    /\ \E id \in DOMAIN orders : orders[id].status = "CANCELLED"
    /\ \E id \in DOMAIN users : ~users[id].is_active


\* The statements of a database method between the lock_guard's constructor
\* and its destructor.
InBody == {"body", "assign", "counters", "unlock", "next"}

\* A user record all of whose members come from one write: it has
\* UpdatedUser's name exactly if it has UpdatedUser's e-mail.
Whole(record) ==
    (record.name = UpdatedUser(record.id).name)
        <=> (record.email = UpdatedUser(record.id).email)

\* C23: the database methods exclude each other.  At most one thread is
\* between the lock and the unlock of a database method, and it is the one
\* that holds the mutex; the database changes only in a step of that thread,
\* so that no other thread sees or disturbs a method half done; and the
\* user records a reader has read (getUser, userExists, getActiveUsers) are
\* whole, never the first members of an updateUser with the rest of the
\* record it replaces.
C23_StoreMutuallyExclusive ==
    /\ [](/\ Cardinality({t \in Threads : thread[t].pc \in InBody}) <= 1
          /\ \A t \in Threads : thread[t].pc \in InBody <=> mutex = t
          /\ \A t \in Threads :
                (/\ thread[t].method \in {"getUser", "userExists", "getActiveUsers"}
                 /\ thread[t].pc = "unlock")
                => \A record \in thread[t].new : Whole(record))
    /\ [][Database' # Database
            => (mutex \in Threads /\ thread[mutex].pc \in InBody
                /\ thread'[mutex] # thread[mutex])]_vars

\* A thread is in the middle of updateUser's assignment, the stored record
\* has the new name with the old e-mail, and another thread, in getUser,
\* waits for the mutex.
C23_Witness ==
    \E t \in Threads, reader \in Threads :
        /\ thread[t].method = "updateUser"
        /\ thread[t].pc = "assign"
        /\ ~Whole(users[thread[t].new.id])
        /\ thread[reader].method = "getUser"
        /\ thread[reader].pc = "lock"

C31_SaveIgnoresInputId ==
    /\ [](\A k \in 1 .. Len(returned.saveUser) : returned.saveUser[k].id = k)
    /\ [](\A k \in 1 .. Len(returned.saveOrder) : returned.saveOrder[k].id = k)
    /\ [][(op' = "saveUser")
            => /\ ret' = next_user_id
               /\ ret' = Len(returned'.saveUser)
               /\ DOMAIN users' = DOMAIN users \cup {ret'}
               /\ users'[ret'] = [args' EXCEPT !.id = ret']
               /\ \A id \in DOMAIN users : users'[id] = users[id]
               /\ orders' = orders]_vars
    /\ [][(op' = "saveOrder")
            => /\ ret' = next_order_id
               /\ ret' = Len(returned'.saveOrder)
               /\ DOMAIN orders' = DOMAIN orders \cup {ret'}
               /\ orders'[ret'] = [args' EXCEPT !.id = ret']
               /\ \A id \in DOMAIN orders : orders'[id] = orders[id]
               /\ users' = users]_vars

\* saveUser was called with a record that carries the id of a stored user:
\* the record is stored as user 2, and user 1 is another record still.
C31_Witness ==
    /\ op = "saveUser"
    /\ args.id = 1
    /\ ret = 2
    /\ DOMAIN users = {1, 2}
    /\ users[2] = [args EXCEPT !.id = 2]
    /\ users[1].name # args.name

\* C32: updateUser and updateOrder return false and leave the database as it
\* is, creating no record, when no record has the id of the one given; when
\* one has, they return true and store the given record in its place, the
\* other records and the two counters as they were.
C32_UpdateOnlyStored ==
    /\ [][(op' = "updateUser")
            => IF args'.id \in DOMAIN users
               THEN /\ ret' = TRUE
                    /\ users' = [users EXCEPT ![args'.id] = args']
                    /\ orders' = orders
                    /\ next_user_id' = next_user_id
                    /\ next_order_id' = next_order_id
               ELSE /\ ret' = FALSE
                    /\ Database' = Database]_vars
    /\ [][(op' = "updateOrder")
            => IF args'.id \in DOMAIN orders
               THEN /\ ret' = TRUE
                    /\ orders' = [orders EXCEPT ![args'.id] = args']
                    /\ users' = users
                    /\ next_user_id' = next_user_id
                    /\ next_order_id' = next_order_id
               ELSE /\ ret' = FALSE
                    /\ Database' = Database]_vars

\* updateUser was called with the id of a user that was stored and deleted:
\* it returned false and the user is not stored.
C32_Witness ==
    /\ op = "updateUser"
    /\ ret = FALSE
    /\ args.id = 1
    /\ next_user_id = 3
    /\ DOMAIN users = {2}

\* C33: deleteUser returns true exactly when a user with the id was stored,
\* and findUserById finds none afterwards; the other users, all the orders,
\* those of the deleted user among them, and the two counters are as they
\* were.  deleteOrder does the same for orders.
C33_DeleteRemovesOnlyTheRecord ==
    /\ [][(op' = "deleteUser")
            => /\ ret' = (args'.id \in DOMAIN users)
               /\ ~findUserById(Database', args'.id).has_value
               /\ DOMAIN users' = DOMAIN users \ {args'.id}
               /\ \A id \in DOMAIN users' : users'[id] = users[id]
               /\ orders' = orders
               /\ next_user_id' = next_user_id
               /\ next_order_id' = next_order_id]_vars
    /\ [][(op' = "deleteOrder")
            => /\ ret' = (args'.id \in DOMAIN orders)
               /\ ~findOrderById(Database', args'.id).has_value
               /\ DOMAIN orders' = DOMAIN orders \ {args'.id}
               /\ \A id \in DOMAIN orders' : orders'[id] = orders[id]
               /\ users' = users
               /\ next_user_id' = next_user_id
               /\ next_order_id' = next_order_id]_vars

\* deleteUser has deleted a user whose order is still stored.
C33_Witness ==
    /\ op = "deleteUser"
    /\ ret = TRUE
    /\ args.id \notin DOMAIN users
    /\ \E id \in DOMAIN orders : orders[id].user_id = args.id

\* C34: with the services alone, whatever the threads pass them, every
\* stored order has a non-empty product name, an amount above zero and one
\* of the five statuses, every stored user a non-empty name, and so has
\* every order a createOrder holds for its saveOrder: invalid input does not
\* reach the database.
C34_StoredFieldsValid ==
    /\ \A id \in DOMAIN orders :
          /\ ~empty(orders[id].product_name)
          /\ orders[id].amount > 0
          /\ orders[id].status \in OrderStatus
    /\ \A id \in DOMAIN users : ~empty(users[id].name)
    /\ \A t \in Threads :
          thread[t].pc = "saveOrder"
          => ~empty(thread[t].new.product_name) /\ thread[t].new.amount > 0

\* Two users and two orders are stored, one order shipped and one
\* cancelled, while a createOrder is about to save a third.
C34_Witness ==
    /\ DOMAIN users = {1, 2}
    /\ DOMAIN orders = {1, 2}
    /\ orders[1].status = "SHIPPED"
    /\ orders[2].status = "CANCELLED"
    /\ \E t \in Threads : thread[t].pc = "saveOrder"

\* The methods that only read.
QueryOps ==
    {"getUser", "getActiveUsers", "userExists", "getOrder", "getUserOrders",
     "getTotalAmount"}

\* C35: getUser, getActiveUsers, userExists, getOrder, getUserOrders and
\* getTotalAmount leave the users, the orders and the two counters as they
\* are, and return a value of their type, for ids that are stored and ids
\* that are not: an optional that is empty or holds the stored record, a
\* boolean, a collection of stored records, a number.
C35_QueriesChangeNothing ==
    /\ [][(op' \in QueryOps) => Database' = Database]_vars
    /\ [](/\ op = "getUser"
             => ret = IF args.id \in DOMAIN users THEN Some(users[args.id]) ELSE NullOpt
          /\ op = "getOrder"
             => ret = IF args.id \in DOMAIN orders THEN Some(orders[args.id]) ELSE NullOpt
          /\ op = "userExists" => ret \in BOOLEAN
          /\ op = "getActiveUsers" => ret \subseteq {users[id] : id \in DOMAIN users}
          /\ op = "getUserOrders" => ret \subseteq {orders[id] : id \in DOMAIN orders}
          /\ op = "getTotalAmount" => ret \in Nat
          /\ \A id \in AnyUserId :
                /\ getUser(Database, id) =
                      IF id \in DOMAIN users THEN Some(users[id]) ELSE NullOpt
                /\ userExists(Database, id) \in BOOLEAN
                /\ getUserOrders(Database, id) \subseteq {orders[o] : o \in DOMAIN orders}
                /\ getTotalAmount(Database, id) \in Nat
          /\ \A id \in AnyOrderId :
                getOrder(Database, id) =
                    IF id \in DOMAIN orders THEN Some(orders[id]) ELSE NullOpt)

\* getUser has returned an empty optional for an id that is not stored,
\* with a user and an order stored.
C35_Witness ==
    /\ op = "getUser"
    /\ ~ret.has_value
    /\ args.id \notin DOMAIN users
    /\ users # EmptyMap
    /\ orders # EmptyMap

=============================================================================
